---- MODULE Spec2Model ----
(***************************************************************************)
(* A model of website_image_scraper/scraper.py: the WebsiteScraper class   *)
(* (is_valid_url, extract_actual_image_url, to_dash_case,                  *)
(* generate_filename, download_image, crawl).                              *)
(*                                                                         *)
(* Strings are sequences of tokens.  A token stands for a run of           *)
(* characters that the code never splits: a word of letters and digits     *)
(* ("http", "site", "jpg"), one punctuation character (":", "/", "?"),     *)
(* or one percent-escape ("%3F").  The string a sequence denotes is the    *)
(* concatenation of its tokens; no token is the concatenation of others,   *)
(* so two sequences are equal exactly when the strings are.                *)
(***************************************************************************)
EXTENDS Integers, Sequences, FiniteSets, TLC

(***************************************************************************)
(* Token classes                                                           *)
(***************************************************************************)
\* [a-zA-Z0-9]+ words (scraper.py:97 uses the same class)
Words ==
    {"http", "https", "HTTP", "ftp", "site", "SITE", "other", "a", "b", "d",
     "img", "jpg", "png", "src", "url", "x", "Photo", "photo",
     "1", "2", "3", "4", "5", "6", "7", "8", "9"}

Digits == <<"1", "2", "3", "4", "5", "6", "7", "8", "9">>

\* str.lower() on one token
LowerTok(t) ==
    CASE t = "HTTP"  -> "http"
      [] t = "SITE"  -> "site"
      [] t = "Photo" -> "photo"
      [] OTHER       -> t

\* urllib.parse.unquote on one token: one level of percent-decoding
UnquoteTok(t) ==
    CASE t = "%3F"   -> "?"
      [] t = "%3D"   -> "="
      [] t = "%2F"   -> "/"
      [] t = "%3A"   -> ":"
      [] t = "%26"   -> "&"
      [] t = "%253F" -> "%3F"
      [] t = "%253D" -> "%3D"
      [] OTHER       -> t

(***************************************************************************)
(* Sequence helpers                                                        *)
(***************************************************************************)
Take(s, n) == SubSeq(s, 1, n)

Drop(s, n) == SubSeq(s, n + 1, Len(s))

StartsWith(s, p) == Len(s) >= Len(p) /\ Take(s, Len(p)) = p

\* str.find for a set of one-token needles: the first index, 0 when absent
FirstIdx(s, T) ==
    IF \E i \in 1..Len(s) : s[i] \in T
    THEN CHOOSE i \in 1..Len(s) : s[i] \in T /\ \A k \in 1..(i - 1) : s[k] \notin T
    ELSE 0

\* str.rfind
LastIdx(s, T) ==
    IF \E i \in 1..Len(s) : s[i] \in T
    THEN CHOOSE i \in 1..Len(s) : s[i] \in T /\ \A k \in (i + 1)..Len(s) : s[k] \notin T
    ELSE 0

\* str.lower()
Lower(s) == [i \in 1..Len(s) |-> LowerTok(s[i])]

\* urllib.parse.unquote
unquote(s) == [i \in 1..Len(s) |-> UnquoteTok(s[i])]

\* str.split(sep): the list of pieces
RECURSIVE Split(_, _)
Split(s, sep) ==
    LET i == FirstIdx(s, {sep})
    IN  IF i = 0 THEN <<s>>
        ELSE <<Take(s, i - 1)>> \o Split(Drop(s, i), sep)

(***************************************************************************)
(* urllib.parse, as scraper.py calls it                                    *)
(***************************************************************************)
HTTP_PFX  == <<"http", ":", "/", "/">>

HTTPS_PFX == <<"https", ":", "/", "/">>

\* The value a raised ValueError is modelled by: no string of the model.
ValueError == <<"!ValueError">>

SchemeChars == Words \cup {"."}

AlphaStart(t) == t \in Words /\ t \notin {Digits[i] : i \in 1..Len(Digits)}

uses_relative == {<<>>, <<"http">>, <<"https">>, <<"ftp">>}

uses_netloc == {<<>>, <<"http">>, <<"https">>, <<"ftp">>}

\* urlparse's result; bad = TRUE where urlsplit raises
\* ValueError("Invalid IPv6 URL")
ParseResult(scheme, netloc, path, query, fragment) ==
    [scheme |-> scheme, netloc |-> netloc, path |-> path,
     query |-> query, fragment |-> fragment,
     bad |-> \/ /\ \E k \in 1..Len(netloc) : netloc[k] = "["
                /\ ~\E k \in 1..Len(netloc) : netloc[k] = "]"
             \/ /\ \E k \in 1..Len(netloc) : netloc[k] = "]"
                /\ ~\E k \in 1..Len(netloc) : netloc[k] = "["]

\* urlsplit: the query starts at the first "?" (at index qi) of what is left
SplitQuery(scheme, netloc, rest, fragment, qi) ==
    ParseResult(scheme, netloc,
                IF qi = 0 THEN rest ELSE Take(rest, qi - 1),
                IF qi = 0 THEN <<>> ELSE Drop(rest, qi),
                fragment)

\* urlsplit: the fragment starts at the first "#" (at index fi)
SplitFragment(scheme, netloc, rest, fi) ==
    SplitQuery(scheme, netloc,
               IF fi = 0 THEN rest ELSE Take(rest, fi - 1),
               IF fi = 0 THEN <<>> ELSE Drop(rest, fi),
               FirstIdx(IF fi = 0 THEN rest ELSE Take(rest, fi - 1), {"?"}))

\* urlsplit: after "//" the netloc runs to the first of "/", "?", "#" (at
\* index ne of r)
SplitNetloc(scheme, r, ne) ==
    SplitFragment(scheme,
                  IF ne = 0 THEN r ELSE Take(r, ne - 1),
                  IF ne = 0 THEN <<>> ELSE Drop(r, ne - 1),
                  FirstIdx(IF ne = 0 THEN <<>> ELSE Drop(r, ne - 1), {"#"}))

\* urlsplit: what follows the scheme
SplitRest(scheme, rest) ==
    IF StartsWith(rest, <<"/", "/">>)
    THEN SplitNetloc(scheme, Drop(rest, 2), FirstIdx(Drop(rest, 2), {"/", "?", "#"}))
    ELSE SplitFragment(scheme, <<>>, rest, FirstIdx(rest, {"#"}))

\* urlsplit: the scheme ends at the first ":" (at index i), when what
\* precedes it is a letter followed by scheme characters
SplitScheme(url, default, i) ==
    IF i > 1 /\ AlphaStart(url[1]) /\ \A k \in 1..(i - 1) : url[k] \in SchemeChars
    THEN SplitRest(Lower(Take(url, i - 1)), Drop(url, i))
    ELSE SplitRest(default, url)

\* urlparse(url, scheme=default)
urlparse_d(url, default) == SplitScheme(url, default, FirstIdx(url, {":"}))

urlparse(url) == urlparse_d(url, <<>>)

\* urlunparse: "//" netloc path
UnparseNetloc(scheme, netloc, path) ==
    IF netloc # <<>>
       \/ (scheme # <<>> /\ scheme \in uses_netloc /\ ~StartsWith(path, <<"/", "/">>))
    THEN <<"/", "/">> \o netloc
         \o (IF path # <<>> /\ path[1] # "/" THEN <<"/">> ELSE <<>>)
         \o path
    ELSE path

urlunparse(scheme, netloc, path, query, fragment) ==
    (IF scheme # <<>> THEN scheme \o <<":">> ELSE <<>>)
    \o UnparseNetloc(scheme, netloc, path)
    \o (IF query # <<>> THEN <<"?">> \o query ELSE <<>>)
    \o (IF fragment # <<>> THEN <<"#">> \o fragment ELSE <<>>)

\* urljoin: the base path up to its last "/" (at index li)
BaseDir(path, li) == IF li = 0 THEN <<"/">> ELSE Take(path, li)

\* urljoin, with base parsed as b and url parsed as u
JoinParsed(url, b, u) ==
    IF b.bad \/ u.bad THEN ValueError
    ELSE IF u.scheme # b.scheme \/ u.scheme \notin uses_relative THEN url
    ELSE IF u.scheme \in uses_netloc /\ u.netloc # <<>>
    THEN urlunparse(u.scheme, u.netloc, u.path, u.query, u.fragment)
    ELSE urlunparse(u.scheme, b.netloc,
                    IF u.path = <<>> THEN b.path
                    ELSE IF u.path[1] = "/" THEN u.path
                    ELSE BaseDir(b.path, LastIdx(b.path, {"/"})) \o u.path,
                    IF u.path = <<>> /\ u.query = <<>> THEN b.query ELSE u.query,
                    u.fragment)

JoinBase(url, b) == JoinParsed(url, b, urlparse_d(url, b.scheme))

\* urljoin(base, url), for paths without "." / ".." segments and without
\* empty inner segments (the model's URLs have none).
urljoin(base, url) ==
    IF base = <<>> THEN url
    ELSE IF url = <<>> THEN base
    ELSE JoinBase(url, urlparse(base))

\* parse_qs(query): the (name, value) pairs in order, both percent-decoded;
\* pairs without "=" or with a blank value are dropped.
RECURSIVE QsPairs(_)
QsPairs(pieces) ==
    IF pieces = <<>> THEN <<>>
    ELSE LET nv == pieces[1]
             e  == FirstIdx(nv, {"="})
         IN  (IF e = 0 \/ e = Len(nv) THEN <<>>
              ELSE <<[name |-> unquote(Take(nv, e - 1)),
                      value |-> unquote(Drop(nv, e))]>>)
             \o QsPairs(Tail(pieces))

parse_qs(query) == QsPairs(Split(query, "&"))

(***************************************************************************)
(* os.path, as scraper.py calls it                                         *)
(***************************************************************************)
\* os.path.basename
basename(path) == Drop(path, LastIdx(path, {"/"}))

\* os.path.splitext: <<root, ext>>; a dot that starts the basename is no
\* extension.
splitext(path) ==
    LET li == LastIdx(path, {"/"})
        di == LastIdx(path, {"."})
    IN  IF di > li + 1 THEN <<Take(path, di - 1), Drop(path, di - 1)>>
        ELSE <<path, <<>>>>

(***************************************************************************)
(* Session state                                                           *)
(***************************************************************************)
VARIABLES
    base_url,       \* self.base_url
    max_retries,    \* self.max_retries
    visited_urls,   \* self.visited_urls
    stack,          \* the activations of crawl, outermost first
    dl,             \* the activation of download_image
    files,          \* the names that exist in self.output_dir
    slept,          \* the rate-limit delay taken and not yet followed by a GET
    page_gets,      \* history: the number of page GETs issued
    fetched,        \* history: the urls a page GET was issued for
    clobbered,      \* history: the names written while they existed
    calls,          \* history: the number of top-level crawl calls made
    images,         \* history: the number of img elements met by crawl
    fn_in,          \* function harness: the argument
    fn_out,         \* function harness: the results
    site            \* environment: the anchors of each page of a fixed site

vars == <<base_url, max_retries, visited_urls, stack, dl, files, slept,
          page_gets, fetched, clobbered, calls, images, fn_in, fn_out, site>>

\* Bounds of the model
MaxDepth == 2

MaxRetries == 3

MaxImages == 3

MaxLinks == 2

MaxCalls == 2

\* Bounds of the fixed sites: the depth of the one crawl call, the anchors of
\* a page
SiteDepth == 3

SiteLinks == 2

\* scraper.py:23 defaults
min_delay == 1

max_delay == 3

\* An absent attribute / argument (Python None)
None == <<"!None">>

Truthy(x) == x # None /\ x # <<>>

\* self.domain = urlparse(base_url).netloc
domain == urlparse(base_url).netloc

(***************************************************************************)
(* WebsiteScraper's pure methods                                           *)
(***************************************************************************)
\* Faulty variant: the scheme prefix of the url is not looked at
valid_any_prefix(url, parsed) ==
    IF parsed.bad THEN FALSE
    ELSE parsed.netloc = domain \/ parsed.netloc = <<>>

\* scraper.py:54-59, with url parsed as parsed: a ValueError of urlparse is
\* caught and answered with False
ValidParsed(url, parsed) ==
    IF parsed.bad THEN FALSE
    ELSE /\ (parsed.netloc = domain \/ parsed.netloc = <<>>)
         /\ (StartsWith(url, HTTP_PFX) \/ StartsWith(url, HTTPS_PFX))

is_valid_url(url) == ValidParsed(url, urlparse(url))

image_params == <<<<"src">>, <<"source">>, <<"img">>, <<"image">>, <<"url">>>>

\* query_params[param][0]: the value of the first pair named param
FirstValue(pairs, param) ==
    pairs[CHOOSE i \in 1..Len(pairs) :
              /\ pairs[i].name = param
              /\ \A k \in 1..(i - 1) : pairs[k].name # param].value

\* scraper.py:80-83: a value that is not absolute is joined to the base url
Absolute(actual_url) ==
    IF StartsWith(actual_url, HTTP_PFX) \/ StartsWith(actual_url, HTTPS_PFX)
    THEN actual_url
    ELSE urljoin(base_url, actual_url)

\* scraper.py:74-83: hits holds the indexes of the image_params present in
\* the query; the first of them wins
FirstParam(image_url, query_params, hits) ==
    IF hits = {} THEN image_url
    ELSE Absolute(unquote(FirstValue(query_params,
             image_params[CHOOSE j \in hits : \A h \in hits : j <= h])))

\* scraper.py:70-75
ScanParams(image_url, query_params) ==
    FirstParam(image_url, query_params,
               {j \in 1..Len(image_params) :
                    \E i \in 1..Len(query_params) : query_params[i].name = image_params[j]})

\* Faulty variant: a url without a recognized parameter is returned decoded
extract_decoded(image_url, parsed) ==
    IF parsed.bad THEN ValueError
    ELSE IF parsed.query = <<>> THEN image_url
    ELSE ScanParams(unquote(image_url), parse_qs(parsed.query))

\* scraper.py:66-86, with image_url parsed as parsed
ExtractParsed(image_url, parsed) ==
    IF parsed.bad THEN ValueError
    ELSE IF parsed.query = <<>> THEN image_url
    ELSE ScanParams(image_url, parse_qs(parsed.query))

extract_actual_image_url(image_url) == ExtractParsed(image_url, urlparse(image_url))

\* re.sub(r'[^a-zA-Z0-9]+', '-', text)
RECURSIVE DashRuns(_)
DashRuns(text) ==
    IF text = <<>> THEN <<>>
    ELSE IF text[1] \in Words THEN <<text[1]>> \o DashRuns(Tail(text))
    ELSE LET n == IF \E i \in 1..Len(text) : text[i] \in Words
                  THEN (CHOOSE i \in 1..Len(text) :
                            text[i] \in Words /\ \A k \in 1..(i - 1) : text[k] \notin Words) - 1
                  ELSE Len(text)
         IN  <<"-">> \o DashRuns(Drop(text, n))

\* str.strip('-')
StripDash(s) ==
    LET a == IF s # <<>> /\ s[1] = "-" THEN Tail(s) ELSE s
    IN  IF a # <<>> /\ a[Len(a)] = "-" THEN Take(a, Len(a) - 1) ELSE a

to_dash_case(text) ==
    IF ~Truthy(text) THEN <<>>
    ELSE Lower(StripDash(DashRuns(text)))

\* scraper.py:110-119, with the element's title and the path of the url
NameFor(title, dash_title, path, ext) ==
    IF Truthy(title) /\ dash_title # <<>>
    THEN dash_title \o (IF ext # <<>> THEN ext ELSE <<".", "jpg">>)
    ELSE basename(path)

TitleAndPath(title, path) == NameFor(title, to_dash_case(title), path, splitext(path)[2])

generate_filename(image_url, img_element) ==
    TitleAndPath(img_element.title, urlparse(image_url).path)

\* os.path.exists(os.path.join(self.output_dir, name)): the empty name is the
\* directory itself.
exists(fs, name) == name = <<>> \/ name \in fs

\* scraper.py:155-159: the loop that looks for a free name
RECURSIVE free_name(_, _, _, _, _)
free_name(fs, filename, base, ext, counter) ==
    IF exists(fs, filename) /\ counter <= Len(Digits)
    THEN free_name(fs, base \o <<"_", Digits[counter]>> \o ext, base, ext, counter + 1)
    ELSE filename

allocate(fs, name) ==
    free_name(fs, name, splitext(name)[1], splitext(name)[2], 1)

(***************************************************************************)
(* The environment: what the site serves                                   *)
(***************************************************************************)
SITE_ROOT == <<"http", ":", "/", "/", "site">>

\* Seed URLs of a session
BaseUrls == {SITE_ROOT, SITE_ROOT \o <<"/">>}

\* href values of the anchors a page may hold
Hrefs ==
    {<<"/">>, <<"a">>, SITE_ROOT,
     <<"http", ":", "/", "/", "other", "/">>,
     <<"http", ":", "/", "/", "[">>}

\* url arguments of a top-level crawl call
CallUrls == {None, SITE_ROOT \o <<"/", "a">>}

Img(src, data_src, title) == [src |-> src, data_src |-> data_src, title |-> title]

\* img elements a page may hold
ImgElems ==
    {Img(<<"a", ".", "jpg">>, None, None),
     Img(None, <<"/", "b", ".", "jpg">>, <<"Photo", "!">>),
     Img(<<"/", "img", "?", "src", "=", "a", ".", "jpg">>, None, <<"Photo">>),
     Img(<<"/", "img", "?", "url", "=", "http", "%3A", "%2F", "%2F", "other", "%2F", "a", ".", "jpg">>,
         None, <<"!">>),
     Img(<<"http", ":", "/", "/", "other", "/", "x", ".", "jpg">>, None, None),
     Img(<<>>, None, <<"Photo">>)}

\* What one image GET can yield: a network-level exception, or a response
\* with a Content-Type and a status code.
Responses ==
    {[exc |-> TRUE, image |-> FALSE, status |-> 0]}
    \cup {[exc |-> FALSE, image |-> i, status |-> st] : i \in BOOLEAN, st \in {200, 500}}

PageOutcomes == {"ok", "non200", "exc"}

\* The pages of a fixed site, by url
SitePages ==
    {SITE_ROOT \o <<"/">>, SITE_ROOT \o <<"/", "a">>,
     SITE_ROOT \o <<"/", "b">>, SITE_ROOT \o <<"/", "d">>}

\* href values of the anchors of a fixed site
SiteHrefs == {<<"/">>, <<"/", "a">>, <<"/", "b">>, <<"/", "d">>}

\* The anchors of one page, in document order: up to SiteLinks distinct hrefs
LinkLists ==
    {l \in UNION {[1..n -> SiteHrefs] : n \in 0..SiteLinks} :
        \A i, j \in 1..Len(l) : i # j => l[i] # l[j]}

\* The sites: the page /d holds no anchor
Sites ==
    {s \in [SitePages -> LinkLists] : s[SITE_ROOT \o <<"/", "d">>] = <<>>}

\* No fixed site: every page holds whatever anchors the step chooses
NoSite == <<>>

\* The page a url is answered with: the server answers the empty path with
\* the page of "/"
PageOf(url) == IF url = SITE_ROOT THEN SITE_ROOT \o <<"/">> ELSE url

\* soup.find_all('a', href=True) on the page of url
Anchors(url) == site[PageOf(url)]

(***************************************************************************)
(* The harness of the pure methods: a URL is put together from a scheme    *)
(* prefix, a host, a path and a query, and the methods are applied to the  *)
(* string.                                                                 *)
(***************************************************************************)
Prefixes ==
    {<<>>, <<"/", "/">>, HTTP_PFX, HTTPS_PFX, <<"HTTP", ":", "/", "/">>,
     <<"ftp", ":", "/", "/">>, <<"http", ":">>}

Hosts == {<<>>, <<"site">>, <<"SITE">>, <<"other">>, <<"[">>}

Paths == {<<>>, <<"/">>, <<"/", "a">>, <<"/", "d", "/", "img">>}

\* Queries (with their "?") whose recognized parameter, if any, wraps a
\* target that carries no recognized parameter itself
PlainQueries ==
    {<<>>,
     <<"?", "x", "=", "1">>,
     <<"?", "x", "=", "%253F">>,
     <<"?", "src", "=">>,
     <<"?", "src", "=", "a", ".", "jpg">>,
     <<"?", "x", "=", "1", "&", "img", "=", "%2F", "b", ".", "jpg">>,
     <<"?", "url", "=", "http", "%3A", "%2F", "%2F", "other", "%2F", "a", ".", "jpg">>,
     <<"?", "url", "=", "b", "&", "src", "=", "a", "&", "src", "=", "d">>}

\* Queries whose wrapped target carries a recognized parameter
NestedQueries ==
    {<<"?", "src", "=", "%2F", "img", "%3F", "src", "%3D", "a", ".", "jpg">>,
     <<"?", "img", "=", "b", "%253F", "url", "%253D", "a">>,
     <<"?", "url", "=", "https", "%3A", "%2F", "%2F", "site", "%2F", "%3F", "img", "%3D", "x">>}

Queries == PlainQueries \cup NestedQueries

UrlInputs == [pfx : Prefixes, host : Hosts, path : Paths, query : Queries]

NoInput == [pfx |-> <<>>, host |-> <<>>, path |-> <<>>, query |-> <<>>]

\* The string an input stands for
UrlOf(in) == in.pfx \o in.host \o in.path \o in.query

\* What the pure methods return for an input
Results(in) ==
    LET url == UrlOf(in)
    IN  [valid  |-> is_valid_url(url),
         actual |-> extract_actual_image_url(url),
         again  |-> extract_actual_image_url(extract_actual_image_url(url))]

(***************************************************************************)
(* Activations                                                             *)
(***************************************************************************)
Frame(url, depth) == [url |-> url, depth |-> depth, pc |-> "enter", k |-> 0]

NoDownload ==
    [pc |-> "idle", url |-> <<>>, img |-> Img(None, None, None), attempt |-> 0,
     results |-> <<>>, waits |-> <<>>, outcome |-> "none", path |-> <<>>,
     before |-> {}]

Top == stack[Len(stack)]

SetTop(f) == [stack EXCEPT ![Len(stack)] = f]

Pop == Take(stack, Len(stack) - 1)

\* 2 ** n
RECURSIVE Pow2(_)
Pow2(n) == IF n <= 0 THEN 1 ELSE 2 * Pow2(n - 1)

Init ==
    /\ base_url \in BaseUrls
    /\ max_retries \in 1..MaxRetries
    /\ visited_urls = {}
    /\ stack = <<>>
    /\ dl = NoDownload
    /\ files = {}
    /\ slept = 0
    /\ page_gets = 0
    /\ fetched = {}
    /\ clobbered = {}
    /\ calls = 0
    /\ images = 0
    /\ fn_in = NoInput
    /\ fn_out = Results(NoInput)
    /\ site = NoSite

(***************************************************************************)
(* The decisions of crawl and download_image                               *)
(***************************************************************************)
\* A faulty depth guard: it lets a call of depth 0 through
depth_below_zero(depth) == depth < 0

\* scraper.py:188
depth_exhausted(depth) == depth <= 0

\* A faulty visited guard: it never recognizes a url
never_visited(url) == FALSE

\* scraper.py:195
already_visited(url) == url \in visited_urls

\* A faulty insertion: it forgets the urls visited before
mark_only(url) == {url}

\* scraper.py:197
mark_visited(url) == visited_urls \cup {url}

\* Faulty variant: the recursive call gets the depth of its caller
same_depth(depth) == depth

\* scraper.py:239: the depth handed to the recursive call
child_depth(depth) == depth - 1

\* scraper.py:223: img.get('src') or img.get('data-src')
img_src(img) == IF Truthy(img.src) THEN img.src ELSE img.data_src

\* Faulty variant: the delay may be as short as none
from_zero == 0..max_delay

\* scraper.py:131, 201: random.uniform(self.min_delay, self.max_delay)
Delays == min_delay..max_delay

\* Faulty variant: the Content-Type is not looked at
any_content(r) == TRUE

\* scraper.py:142: 'image' in content_type
is_image(r) == r.image

\* Faulty variant: the wait grows by one second per attempt
linear_backoff(attempt) == attempt + 1

\* Faulty variant: the exponent is the 1-based number of the attempt
late_backoff(attempt) == Pow2(attempt + 1)

\* scraper.py:178: the wait after a network-level failure of attempt `attempt`
error_backoff(attempt) == Pow2(attempt)

\* Faulty variant: the wait after a bad status doubles like the one after an
\* exception
doubling_backoff(attempt) == Pow2(attempt)

\* scraper.py:171: the wait after a response whose status is not 200
status_backoff(attempt) == 1

\* Faulty variant: one attempt too many
one_more_attempt(attempt) == attempt < max_retries

\* scraper.py:128: range(self.max_retries) has another attempt after `attempt`
more_attempts(attempt) == attempt + 1 < max_retries

\* Faulty variant: the generated name is used without the existence loop
first_choice(fs, image_url, img_element) ==
    generate_filename(image_url, img_element)

\* scraper.py:149-159: the path the image is saved under
target_path(fs, image_url, img_element) ==
    allocate(fs, generate_filename(image_url, img_element))

(***************************************************************************)
(* crawl                                                                   *)
(***************************************************************************)
\* A top-level call crawl(url, depth) on the session's scraper
Crawl(url, depth) ==
    /\ stack = <<>>
    /\ dl.pc = "idle"
    /\ calls < MaxCalls
    /\ stack' = <<Frame(url, depth)>>
    /\ calls' = calls + 1
    /\ UNCHANGED <<base_url, max_retries, visited_urls, dl, files, slept,
                   page_gets, fetched, clobbered, images, fn_in, fn_out, site>>

\* Faulty variant: the url is marked visited before the depth is looked at
CrawlEnterMarksFirst ==
    /\ stack # <<>>
    /\ Top.pc = "enter"
    /\ LET url == IF Truthy(Top.url) THEN Top.url ELSE base_url
       IN  IF already_visited(url)
           THEN /\ stack' = Pop
                /\ UNCHANGED visited_urls
           ELSE /\ visited_urls' = mark_visited(url)
                /\ stack' = IF depth_exhausted(Top.depth) THEN Pop
                             ELSE SetTop([Top EXCEPT !.url = url, !.pc = "sleep"])
    /\ UNCHANGED <<base_url, max_retries, dl, files, slept, page_gets,
                   fetched, clobbered, calls, images, fn_in, fn_out, site>>

\* scraper.py:187-197: the depth guard, the default url, the visited guard
CrawlEnter ==
    /\ stack # <<>>
    /\ Top.pc = "enter"
    /\ LET url == IF Truthy(Top.url) THEN Top.url ELSE base_url
       IN  IF depth_exhausted(Top.depth) \/ already_visited(url)
           THEN /\ stack' = Pop
                /\ UNCHANGED visited_urls
           ELSE /\ visited_urls' = mark_visited(url)
                /\ stack' = SetTop([Top EXCEPT !.url = url, !.pc = "sleep"])
    /\ UNCHANGED <<base_url, max_retries, dl, files, slept, page_gets,
                   fetched, clobbered, calls, images, fn_in, fn_out, site>>

\* scraper.py:201: the rate-limit sleep before the page request
CrawlSleep ==
    /\ stack # <<>>
    /\ Top.pc = "sleep"
    /\ \E d \in Delays : slept' = d
    /\ stack' = SetTop([Top EXCEPT !.pc = "get"])
    /\ UNCHANGED <<base_url, max_retries, visited_urls, dl, files, page_gets,
                   fetched, clobbered, calls, images, fn_in, fn_out, site>>

\* scraper.py:204-218, 241-242: the page GET and what follows from its outcome
CrawlGet ==
    /\ stack # <<>>
    /\ Top.pc = "get"
    /\ \E o \in PageOutcomes :
          stack' = SetTop([Top EXCEPT !.pc = IF o = "ok" THEN "imgs" ELSE o])
    /\ page_gets' = page_gets + 1
    /\ fetched' = fetched \cup {Top.url}
    /\ slept' = 0
    /\ UNCHANGED <<base_url, max_retries, visited_urls, dl, files, clobbered,
                   calls, images, fn_in, fn_out, site>>

\* Faulty variant: the failure of a page fetch leaves every caller too
CrawlFailedPropagates ==
    /\ stack # <<>>
    /\ Top.pc \in {"non200", "exc"}
    /\ stack' = <<>>
    /\ UNCHANGED <<base_url, max_retries, visited_urls, dl, files, slept,
                   page_gets, fetched, clobbered, calls, images, fn_in,
                   fn_out, site>>

\* scraper.py:211-215, 241-242: a failed page fetch is logged and crawl returns
CrawlFailed ==
    /\ stack # <<>>
    /\ Top.pc \in {"non200", "exc"}
    /\ stack' = Pop
    /\ UNCHANGED <<base_url, max_retries, visited_urls, dl, files, slept,
                   page_gets, fetched, clobbered, calls, images, fn_in,
                   fn_out, site>>

\* scraper.py:126: download_image starts with the url it will request
StartDownload(img, actual) ==
    IF actual = ValueError
    THEN stack' = Pop /\ UNCHANGED dl
    ELSE /\ UNCHANGED stack
         /\ dl' = [NoDownload EXCEPT
                      !.pc = IF max_retries > 0 THEN "sleep" ELSE "done",
                      !.outcome = IF max_retries > 0 THEN "none" ELSE "Failed",
                      !.url = actual, !.img = img, !.before = files]

\* scraper.py:226-228
ImageAt(img, full_img_url) ==
    IF full_img_url = ValueError
    THEN stack' = Pop /\ UNCHANGED dl
    ELSE IF ~is_valid_url(full_img_url)
    THEN UNCHANGED <<stack, dl>>
    ELSE StartDownload(img, extract_actual_image_url(full_img_url))

\* scraper.py:222-228: one iteration of the loop over the page's img elements
CrawlImage ==
    /\ stack # <<>>
    /\ Top.pc = "imgs"
    /\ dl.pc = "idle"
    /\ images < MaxImages
    /\ images' = images + 1
    /\ \E img \in ImgElems :
          IF ~Truthy(img_src(img))
          THEN UNCHANGED <<stack, dl>>
          ELSE ImageAt(img, urljoin(Top.url, img_src(img)))
    /\ UNCHANGED <<base_url, max_retries, visited_urls, files, slept,
                   page_gets, fetched, clobbered, calls, fn_in, fn_out, site>>

\* scraper.py:222, 231: the loop over the img elements ends
CrawlImagesDone ==
    /\ stack # <<>>
    /\ Top.pc = "imgs"
    /\ dl.pc = "idle"
    /\ stack' = SetTop([Top EXCEPT !.pc = "links", !.k = 0])
    /\ UNCHANGED <<base_url, max_retries, visited_urls, dl, files, slept,
                   page_gets, fetched, clobbered, calls, images, fn_in,
                   fn_out, site>>

\* scraper.py:235-239
LinkAt(full_link) ==
    IF full_link = ValueError
    THEN stack' = Pop
    ELSE IF is_valid_url(full_link)
    THEN stack' = Append(SetTop([Top EXCEPT !.k = @ + 1]),
                         Frame(full_link, child_depth(Top.depth)))
    ELSE stack' = SetTop([Top EXCEPT !.k = @ + 1])

\* scraper.py:232-239: one iteration of the loop over the page's anchors
CrawlLink ==
    /\ stack # <<>>
    /\ Top.pc = "links"
    /\ Top.k < MaxLinks
    /\ \E href \in Hrefs : LinkAt(urljoin(Top.url, href))
    /\ UNCHANGED <<base_url, max_retries, visited_urls, dl, files, slept,
                   page_gets, fetched, clobbered, calls, images, fn_in, fn_out, site>>

\* scraper.py:232: the loop over the anchors ends and crawl returns
CrawlLinksDone ==
    /\ stack # <<>>
    /\ Top.pc = "links"
    /\ stack' = Pop
    /\ UNCHANGED <<base_url, max_retries, visited_urls, dl, files, slept,
                   page_gets, fetched, clobbered, calls, images, fn_in,
                   fn_out, site>>

(***************************************************************************)
(* download_image                                                          *)
(***************************************************************************)
\* Faulty variant: the attempt is repeated without being counted
retry_uncounted(d, r, w) == [d EXCEPT !.pc = "sleep"]

\* The activation after a failed attempt that waited w seconds
AfterFailure(d, r, w) ==
    [d EXCEPT !.results = Append(@, r),
              !.waits = Append(@, w),
              !.attempt = @ + 1,
              !.pc = IF more_attempts(d.attempt) THEN "sleep" ELSE "done",
              !.outcome = IF more_attempts(d.attempt) THEN "none" ELSE "Failed"]

\* scraper.py:131: the rate-limit sleep before the image request
DownloadSleep ==
    /\ dl.pc = "sleep"
    /\ \E d \in Delays : slept' = d
    /\ dl' = [dl EXCEPT !.pc = "get"]
    /\ UNCHANGED <<base_url, max_retries, visited_urls, stack, files,
                   page_gets, fetched, clobbered, calls, images, fn_in,
                   fn_out, site>>

\* scraper.py:161-166: the body is written to filename
Save(r, filename) ==
    /\ files' = files \cup {filename}
    /\ clobbered' = IF exists(files, filename) THEN clobbered \cup {filename}
                    ELSE clobbered
    /\ dl' = [dl EXCEPT !.results = Append(@, r), !.pc = "done",
                        !.outcome = "Saved", !.path = filename]

\* scraper.py:133-178: the image GET and the rest of the attempt
DownloadGet ==
    /\ dl.pc = "get"
    /\ slept' = 0
    /\ \E r \in Responses, disk_ok \in BOOLEAN :
          IF r.exc
          THEN /\ disk_ok
               /\ dl' = AfterFailure(dl, r, error_backoff(dl.attempt))
               /\ UNCHANGED <<files, clobbered>>
          ELSE IF ~is_image(r)
          THEN /\ disk_ok
               /\ dl' = [dl EXCEPT !.results = Append(@, r), !.pc = "done",
                                   !.outcome = "Skipped"]
               /\ UNCHANGED <<files, clobbered>>
          ELSE IF r.status = 200
          THEN IF disk_ok
               THEN Save(r, target_path(files, dl.url, dl.img))
               ELSE /\ dl' = [dl EXCEPT !.results = Append(@, r), !.pc = "raised",
                                        !.outcome = "Error"]
                    /\ UNCHANGED <<files, clobbered>>
          ELSE /\ disk_ok
               /\ dl' = AfterFailure(dl, r, status_backoff(dl.attempt))
               /\ UNCHANGED <<files, clobbered>>
    /\ UNCHANGED <<base_url, max_retries, visited_urls, stack, page_gets,
                   fetched, calls, images, fn_in, fn_out, site>>

\* download_image returns to the loop of crawl (scraper.py:145, 166, 181)
DownloadReturn ==
    /\ dl.pc = "done"
    /\ dl' = NoDownload
    /\ UNCHANGED <<base_url, max_retries, visited_urls, stack, files, slept,
                   page_gets, fetched, clobbered, calls, images, fn_in,
                   fn_out, site>>

\* An OSError of open/write is no RequestException: it leaves download_image
\* and is caught by crawl's handler (scraper.py:243-244), which ends the page.
DownloadRaise ==
    /\ dl.pc = "raised"
    /\ dl' = NoDownload
    /\ stack' = Pop
    /\ UNCHANGED <<base_url, max_retries, visited_urls, files, slept,
                   page_gets, fetched, clobbered, calls, images, fn_in,
                   fn_out, site>>

\* is_valid_url and extract_actual_image_url applied to an input
Apply(in) ==
    /\ fn_in = NoInput
    /\ fn_in' = in
    /\ fn_out' = Results(in)
    /\ UNCHANGED <<base_url, max_retries, visited_urls, stack, dl, files,
                   slept, page_gets, fetched, clobbered, calls, images, site>>

Next ==
    \/ \E url \in CallUrls, depth \in 0..MaxDepth : Crawl(url, depth)
    \/ CrawlEnter
    \/ CrawlSleep
    \/ CrawlGet
    \/ CrawlFailed
    \/ CrawlImage
    \/ CrawlImagesDone
    \/ CrawlLink
    \/ CrawlLinksDone
    \/ DownloadSleep
    \/ DownloadGet
    \/ DownloadReturn
    \/ DownloadRaise

Spec == Init /\ [][Next]_vars

\* The steps of a running crawl call
Step ==
    \/ CrawlEnter
    \/ CrawlSleep
    \/ CrawlGet
    \/ CrawlFailed
    \/ CrawlImagesDone
    \/ CrawlLinksDone
    \/ DownloadSleep
    \/ DownloadReturn
    \/ DownloadRaise
    \/ DownloadGet
    \/ CrawlImage
    \/ CrawlLink

\* The program is sequential and no step blocks: a crawl call that can take a
\* step takes one.
LiveSpec == Init /\ [][Next]_vars /\ WF_vars(Step)

FnNext == \E in \in UrlInputs : Apply(in)

\* The pure methods on every input of the harness
FnSpec == Init /\ [][FnNext]_vars

(***************************************************************************)
(* One session on a fixed site: main() makes one call crawl(depth=D), every *)
(* page fetch is answered 200, the pages hold anchors and no img element.  *)
(***************************************************************************)
SiteInit ==
    /\ base_url \in BaseUrls
    /\ max_retries = MaxRetries
    /\ visited_urls = {}
    /\ stack = <<>>
    /\ dl = NoDownload
    /\ files = {}
    /\ slept = 0
    /\ page_gets = 0
    /\ fetched = {}
    /\ clobbered = {}
    /\ calls = 0
    /\ images = 0
    /\ fn_in = NoInput
    /\ fn_out = Results(NoInput)
    /\ site \in Sites

\* scraper.py:259: scraper.crawl(depth=D)
SiteCrawl == calls = 0 /\ \E depth \in 0..SiteDepth : Crawl(None, depth)

\* scraper.py:204-218: the page GET is answered 200
SiteGet == CrawlGet /\ stack'[Len(stack)].pc = "imgs"

\* scraper.py:232-239: one iteration of the loop over the anchors of the page
SiteLink ==
    /\ stack # <<>>
    /\ Top.pc = "links"
    /\ Top.k < Len(Anchors(Top.url))
    /\ LinkAt(urljoin(Top.url, Anchors(Top.url)[Top.k + 1]))
    /\ UNCHANGED <<base_url, max_retries, visited_urls, dl, files, slept,
                   page_gets, fetched, clobbered, calls, images, fn_in, fn_out,
                   site>>

\* scraper.py:232: the loop is through the anchors of the page
SiteLinksDone == CrawlLinksDone /\ Top.k = Len(Anchors(Top.url))

SiteNext ==
    \/ SiteCrawl
    \/ CrawlEnter
    \/ CrawlSleep
    \/ SiteGet
    \/ CrawlImagesDone
    \/ SiteLink
    \/ SiteLinksDone

SiteSpec == SiteInit /\ [][SiteNext]_vars

(***************************************************************************)
(* Claims                                                                  *)
(***************************************************************************)
Running == stack # <<>>

\* A page request is pending: its url is inserted, its GET not yet issued
Pending == IF Running /\ Top.pc \in {"sleep", "get"} THEN 1 ELSE 0

\* C1: within one session no URL is page-fetched twice, over any sequence of
\* crawl calls: the number of page GETs issued equals the number of distinct
\* urls fetched, and equals the size of visited_urls once the GET of the url
\* inserted last has been issued.
C1_NoPageFetchedTwice ==
    /\ page_gets = Cardinality(fetched)
    /\ page_gets + Pending = Cardinality(visited_urls)

\* C1 witness: a link leads to a url that is already visited, after two GETs
C1_Witness ==
    /\ Len(stack) = 2
    /\ Top.pc = "enter"
    /\ Top.url \in visited_urls
    /\ page_gets = 2

\* C2: a crawl started with depth D hands each recursive call a depth one
\* less than its caller's, fetches a page only in a call of depth >= 1, and
\* so fetches no page more than D-1 link hops from the seed.
C2_DepthBound ==
    \A i \in 1..Len(stack) :
        /\ stack[i].depth = stack[1].depth - (i - 1)
        /\ stack[i].pc # "enter" => /\ stack[i].depth >= 1
                                    /\ i - 1 <= stack[1].depth - 1

\* C2 witness: with D = 2, a link of a page one hop from the seed is entered
\* with depth 0 and an unvisited url
C2_Witness ==
    /\ Len(stack) = 3
    /\ stack[1].depth = 2
    /\ Top.pc = "enter"
    /\ Top.depth = 0
    /\ Top.url \notin visited_urls

\* The url of every call past the visited guard is in visited_urls, and so
\* is every url a GET was issued for
VisitedBeforeGet ==
    /\ fetched \subseteq visited_urls
    /\ \A i \in 1..Len(stack) : stack[i].pc # "enter" => stack[i].url \in visited_urls

\* C3: the visited set only grows: a url is in it before the GET for its
\* page is issued, and no step removes an element, whatever the fetch
\* outcome.
C3_VisitedOnlyGrows ==
    /\ []VisitedBeforeGet
    /\ [][visited_urls \subseteq visited_urls']_vars

\* C3 witness: a page fetch has failed and its url is in the set
C3_Witness ==
    /\ Running
    /\ Top.pc \in {"non200", "exc"}
    /\ Top.url \in visited_urls
    /\ Cardinality(visited_urls) = 2

\* C4: under fairness every crawl call returns, whatever the links of the
\* pages (self-links and cycles included) and whatever the fetch outcomes,
\* and with it every download_image call it made has returned.
C4_CrawlTerminates == Running ~> (~Running /\ dl.pc = "idle")

\* C4 witness: one crawl call has returned after visiting the three pages of
\* the site, which link to each other
C4_Witness ==
    /\ ~Running
    /\ calls = 1
    /\ Cardinality(visited_urls) = 3
    /\ page_gets = 3

\* The attempts of the current download_image call all failed with a
\* network-level error
AllErrors(rs) == \A i \in 1..Len(rs) : rs[i].exc

\* C5: one download_image call issues at most max_retries GETs; when every
\* attempt failed with a network-level error it has issued exactly
\* max_retries of them, has written no file and ends as Failed.
C5_RetriesExhausted ==
    /\ Len(dl.results) <= max_retries
    /\ (dl.pc = "done" /\ dl.results # <<>> /\ AllErrors(dl.results)) =>
          /\ Len(dl.results) = max_retries
          /\ dl.outcome = "Failed"
          /\ dl.path = <<>>
          /\ files = dl.before

\* C5 witness: three attempts out of three failed with an exception
C5_Witness ==
    /\ dl.pc = "done"
    /\ dl.outcome = "Failed"
    /\ max_retries = 3
    /\ Len(dl.results) = 3
    /\ AllErrors(dl.results)
    /\ dl.waits = <<1, 2, 4>>

\* A response whose Content-Type does not contain "image"
NotImage(r) == ~r.exc /\ ~r.image

\* A response that is not an image is the last GET of the call, which ends
\* as Skipped with no wait after that response and no file written
SkippedAtOnce ==
    \A i \in 1..Len(dl.results) :
        NotImage(dl.results[i]) =>
            /\ i = Len(dl.results)
            /\ dl.pc = "done"
            /\ dl.outcome = "Skipped"
            /\ Len(dl.waits) = i - 1
            /\ dl.path = <<>>
            /\ files = dl.before

\* C6 (amended): a response that is not an image ends download_image as
\* Skipped at once, whatever its status: no further GET, no wait, no file;
\* if it answers the first attempt, exactly one attempt was made.
C6_NotImageSkipped ==
    /\ SkippedAtOnce
    /\ (dl.results # <<>> /\ NotImage(dl.results[1])) =>
          (Len(dl.results) = 1 /\ dl.waits = <<>>)

\* C6 witness: the first attempt was answered with status 500 and a
\* Content-Type that is not an image
C6_Witness ==
    /\ dl.pc = "done"
    /\ dl.outcome = "Skipped"
    /\ Len(dl.results) = 1
    /\ NotImage(dl.results[1])
    /\ dl.results[1].status = 500

\* C6 as stated: if the response that is not an image is the first response
\* of the call (every attempt before it ended in an exception), exactly one
\* attempt was made.
C6_Original ==
    /\ SkippedAtOnce
    /\ \A i \in 1..Len(dl.results) :
          (NotImage(dl.results[i]) /\ AllErrors(Take(dl.results, i - 1))) =>
              Len(dl.results) = 1

\* Every attempt was answered with a status other than 200
AllNot200(rs) == \A i \in 1..Len(rs) : ~rs[i].exc /\ rs[i].status # 200

\* Every attempt was answered with an image Content-Type and a status other
\* than 200
AllImageNot200(rs) == \A i \in 1..Len(rs) : rs[i].image /\ rs[i].status # 200

\* C7 (amended): when every attempt is answered with an image Content-Type
\* and a status other than 200, download_image makes exactly max_retries
\* attempts, waits a fixed 1 second after each of them and ends as Failed
\* with no file written; the wait after any such response is 1 second.
C7_Not200Retried ==
    /\ \A i \in 1..Len(dl.waits) : ~dl.results[i].exc => dl.waits[i] = 1
    /\ (dl.pc = "done" /\ dl.results # <<>> /\ AllImageNot200(dl.results)) =>
          /\ Len(dl.results) = max_retries
          /\ dl.outcome = "Failed"
          /\ dl.waits = [i \in 1..max_retries |-> 1]
          /\ files = dl.before

\* C7 witness: three attempts out of three were answered with status 500 and
\* an image Content-Type
C7_Witness ==
    /\ dl.pc = "done"
    /\ dl.outcome = "Failed"
    /\ max_retries = 3
    /\ Len(dl.results) = 3
    /\ AllImageNot200(dl.results)
    /\ dl.waits = <<1, 1, 1>>

\* C7 as stated: a status other than 200 on every attempt gives exactly
\* max_retries attempts, the i-th followed by a wait of 2^(i-1) seconds, and
\* the outcome Failed.
C7_Original ==
    (dl.pc = "done" /\ dl.results # <<>> /\ AllNot200(dl.results)) =>
        /\ Len(dl.results) = max_retries
        /\ dl.outcome = "Failed"
        /\ \A i \in 1..Len(dl.waits) : dl.waits[i] = Pow2(i - 1)

\* name with _c put before its extension
Suffixed(name, c) == splitext(name)[1] \o <<"_", Digits[c]>> \o splitext(name)[2]

\* path is name if name was free in fs, and otherwise name with the smallest
\* counter whose suffixed name was free in fs
SmallestFree(fs, name, path) ==
    IF ~exists(fs, name) THEN path = name
    ELSE \E c \in 1..Len(Digits) :
            /\ path = Suffixed(name, c)
            /\ \A j \in 1..(c - 1) : exists(fs, Suffixed(name, j))

\* C8: no write goes to a path that exists when it is written; a saved image
\* is at a path that did not exist when download_image was called: the
\* generated name if it was free, else the name with the smallest free
\* counter; every file that existed is still there.
C8_NoOverwrite ==
    /\ clobbered = {}
    /\ dl.before \subseteq files
    /\ dl.outcome = "Saved" =>
          /\ ~exists(dl.before, dl.path)
          /\ files = dl.before \cup {dl.path}
          /\ SmallestFree(dl.before, generate_filename(dl.url, dl.img), dl.path)

\* C8 witness: the generated name and its _1 variant exist, the image is
\* saved with _2
C8_Witness ==
    /\ dl.outcome = "Saved"
    /\ Cardinality(dl.before) = 2
    /\ dl.path = Suffixed(generate_filename(dl.url, dl.img), 2)

\* The method has been applied to an input of the harness
Applied == fn_in # NoInput

\* C9 (amended): is_valid_url is true exactly for the urls that start with
\* http:// or https:// and have no host or the session's domain as host; it
\* is false for every other url (another host, another or no scheme prefix,
\* so every relative url) and false for a malformed url, with no exception.
C9_SameDomainHttp ==
    Applied =>
        (fn_out.valid <=> /\ fn_in.pfx \in {HTTP_PFX, HTTPS_PFX}
                          /\ fn_in.host \in {<<>>, domain})

\* C9 witness: an https url of the session's domain is valid
C9_Witness ==
    /\ fn_in.pfx = HTTPS_PFX
    /\ fn_in.host = domain
    /\ fn_in.path = <<"/", "a">>
    /\ fn_out.valid

\* C9 as stated: true for every url without a host and for every url with
\* the session's domain as host, false for any other host and for malformed
\* input.
C9_Original ==
    Applied =>
        (fn_out.valid <=> /\ ~urlparse(UrlOf(fn_in)).bad
                          /\ urlparse(UrlOf(fn_in)).netloc \in {<<>>, domain})

\* The names of the parameters of a query, blank values dropped
ParamNames(pairs) == {pairs[i].name : i \in 1..Len(pairs)}

\* The query of url holds a recognized parameter with a value
Wrapped(url) ==
    /\ ~urlparse(url).bad
    /\ \E j \in 1..Len(image_params) :
          image_params[j] \in ParamNames(parse_qs(urlparse(url).query))

\* C10 (amended): extract_actual_image_url applied twice gives what it gives
\* applied once for every url whose result carries no recognized parameter
\* with a value: so for every url without such a parameter, and for every
\* wrapper whose target carries none itself.
C10_IdempotentOnPlain ==
    Applied =>
        /\ ~Wrapped(fn_out.actual) => fn_out.again = fn_out.actual
        /\ fn_in.query \in PlainQueries => fn_out.again = fn_out.actual

\* C10 witness: a wrapper is resolved to its decoded target, and resolving
\* the target changes nothing
C10_Witness ==
    /\ fn_in.pfx = HTTP_PFX
    /\ fn_in.host = <<"site">>
    /\ fn_in.query = <<"?", "url", "=", "http", "%3A", "%2F", "%2F", "other", "%2F", "a", ".", "jpg">>
    /\ fn_out.actual = <<"http", ":", "/", "/", "other", "/", "a", ".", "jpg">>
    /\ fn_out.again = fn_out.actual

\* C10 as stated: applied twice gives what it gives applied once, for every
\* url
C10_Original == Applied => fn_out.again = fn_out.actual

\* C11: every url a GET was issued for, by crawl or by download_image (the
\* url obtained by unwrapping a query parameter included), satisfies
\* is_valid_url.
C11_RequestsInDomain ==
    /\ \A u \in fetched : is_valid_url(u)
    /\ dl.results # <<>> => is_valid_url(dl.url)

\* A page fetch has failed in the call on top of the stack
PageFailed == Running /\ Top.pc \in {"non200", "exc"}

\* The call whose page fetch failed has issued its one GET, and its caller,
\* if any, is in its loop over the links
FailedOnce ==
    PageFailed =>
        /\ Top.url \in fetched
        /\ Top.url \in visited_urls
        /\ Len(stack) >= 2 => /\ stack[Len(stack) - 1].pc = "links"
                              /\ stack[Len(stack) - 1].k >= 1

\* C12: a page fetch that fails is not retried: the call returns without
\* another GET and its url stays visited; only that call ends: every caller
\* is left as it was, in its loop over the links, so the remaining links of
\* the parent page are taken next.
C12_PageFailurePrunes ==
    /\ []FailedOnce
    /\ [][PageFailed => /\ stack' = Take(stack, Len(stack) - 1)
                        /\ page_gets' = page_gets
                        /\ visited_urls' = visited_urls
                        /\ dl' = dl
                        /\ files' = files]_vars

\* C12 witness: the page behind the first link of the seed page has failed
\* and the seed page has a link left
C12_Witness ==
    /\ Len(stack) = 2
    /\ PageFailed
    /\ stack[1].pc = "links"
    /\ stack[1].k = 1
    /\ stack[1].k < MaxLinks

\* The write of an image has failed with a filesystem error
SaveFailed == dl.pc = "raised"

\* C13: a filesystem error on the write of one image ends only that
\* download: the call of crawl that asked for it goes on with the remaining
\* images and the links of its page.
C13_SaveFailureIsolated ==
    [][SaveFailed => /\ stack' = stack
                     /\ Top.pc = "imgs"]_vars

\* The next step of crawl or of download_image is a GET
AtGet == (Running /\ Top.pc = "get") \/ dl.pc = "get"

\* This step issues a GET, for a page or for an image
IssuesGet ==
    \/ page_gets' = page_gets + 1
    \/ Len(dl'.results) = Len(dl.results) + 1

\* C14: every GET, of a page and of each attempt for an image, directly
\* follows one rate-limit delay of min_delay to max_delay seconds: a delay is
\* pending exactly when the next step is a GET, and the GET uses it up, so no
\* two GETs follow each other without a delay.
C14_DelayBeforeEveryGet ==
    /\ [](IF AtGet THEN slept \in min_delay..max_delay ELSE slept = 0)
    /\ [][IssuesGet => (AtGet /\ slept >= min_delay /\ slept' = 0)]_vars

\* C14 witness: the second attempt for an image is about to be issued, after
\* the wait for the failure of the first and a delay of max_delay seconds
C14_Witness ==
    /\ dl.pc = "get"
    /\ dl.attempt = 1
    /\ Len(dl.waits) = 1
    /\ slept = max_delay

\* C16: the wait after the k-th attempt of a download_image call, when that
\* attempt failed with a network-level error, is 2^(k-1) seconds, for every
\* k up to max_retries.
C16_ErrorBackoff ==
    /\ Len(dl.waits) <= max_retries
    /\ \A k \in 1..Len(dl.waits) : dl.results[k].exc => dl.waits[k] = 2^(k - 1)

\* C16 witness: the first and the third attempt out of three failed with an
\* exception, the second with a bad status: the waits are 1, 1 and 4
C16_Witness ==
    /\ max_retries = 3
    /\ Len(dl.results) = 3
    /\ dl.results[1].exc /\ ~dl.results[2].exc /\ dl.results[3].exc
    /\ dl.waits = <<1, 1, 4>>

\* The sum of a sequence of waits
RECURSIVE Total(_)
Total(ws) == IF ws = <<>> THEN 0 ELSE ws[1] + Total(Tail(ws))

\* C17 (amended): the waits of one download_image call add up to at most
\* 2^max_retries - 1 seconds, and to exactly that when every attempt failed
\* with a network-level error.
C17_TotalBackoff ==
    /\ Total(dl.waits) <= 2^max_retries - 1
    /\ (dl.pc = "done" /\ dl.results # <<>> /\ AllErrors(dl.results)) =>
          Total(dl.waits) = 2^max_retries - 1

\* C17 witness: three failed attempts out of three have waited 7 seconds
C17_Witness ==
    /\ dl.pc = "done"
    /\ max_retries = 3
    /\ Total(dl.waits) = 7

\* C17 as stated: the waits of one call add up to at most 2^(max_retries-1)
\* seconds.
C17_Original == Total(dl.waits) <= 2^(max_retries - 1)

\* A call of crawl with depth <= 0 is about to run
DepthZeroCall == Running /\ Top.pc = "enter" /\ Top.depth <= 0

\* C18: a call of crawl with depth <= 0 returns at once: no delay, no GET,
\* no file, visited_urls as it was, its caller as it was; so visited_urls
\* holds only urls whose call had a positive depth, and a url met at depth 0
\* is fetched by a later call that has one.
C18_DepthZeroNoOp ==
    /\ [](visited_urls \subseteq fetched \cup {stack[i].url : i \in 1..Len(stack)})
    /\ [][DepthZeroCall => /\ stack' = Take(stack, Len(stack) - 1)
                           /\ visited_urls' = visited_urls
                           /\ page_gets' = page_gets
                           /\ fetched' = fetched
                           /\ slept' = slept
                           /\ dl' = dl
                           /\ files' = files]_vars

\* C18 witness: the first call of the session had depth 0 and left nothing
\* behind; the second call fetches its page
C18_Witness ==
    /\ calls = 2
    /\ Len(stack) = 1
    /\ Top.pc = "get"
    /\ page_gets = 0
    /\ visited_urls = {Top.url}

\* The last attempt of the call was answered 200 with an image Content-Type
\* and the write did not fail
ImageReceived ==
    /\ dl.pc = "done"
    /\ dl.results # <<>>
    /\ dl.results[Len(dl.results)].image
    /\ dl.results[Len(dl.results)].status = 200

\* The name generated for the image of the call existed when it was called
NameTaken == exists(dl.before, generate_filename(dl.url, dl.img))

\* C20 (amended): an image whose generated filename exists is not skipped:
\* it is saved as one more file, under a name that did not exist, so the
\* directory can hold several files for one generated filename; Skipped is
\* the outcome of a response that is not an image and of nothing else.
C20_SavedBesideExisting ==
    /\ ImageReceived =>
          /\ dl.outcome = "Saved"
          /\ dl.path \notin dl.before
          /\ files = dl.before \cup {dl.path}
          /\ Cardinality(files) = Cardinality(dl.before) + 1
    /\ dl.outcome = "Skipped" => NotImage(dl.results[Len(dl.results)])

\* C20 witness: the generated name exists and the image is saved under the
\* name with _1
C20_Witness ==
    /\ ImageReceived
    /\ NameTaken
    /\ dl.outcome = "Saved"
    /\ dl.path = Suffixed(generate_filename(dl.url, dl.img), 1)
    /\ generate_filename(dl.url, dl.img) \in files

\* C20 as stated: when the file of the generated name exists, download_image
\* ends as Skipped and writes no file.
C20_Original ==
    (ImageReceived /\ NameTaken) => (dl.outcome = "Skipped" /\ files = dl.before)

\* The seed page holds an anchor to itself, href="/"
SeedSelfLink ==
    \E i \in 1..Len(Anchors(base_url)) : Anchors(base_url)[i] = <<"/">>

\* The urls the seed page was fetched under
SeedFetches == {u \in fetched : PageOf(u) = PageOf(base_url)}

\* C15: in a crawl of depth 3 whose seed page holds a link to itself, the
\* seed page is fetched once.
C15_SeedFetchedOnce ==
    (Running /\ stack[1].depth = 3 /\ SeedSelfLink) =>
        Cardinality(SeedFetches) <= 1

\* The urls the anchors of the page of u lead to, those is_valid_url accepts
Targets(u) ==
    {t \in {urljoin(u, Anchors(u)[i]) : i \in 1..Len(Anchors(u))} :
        t # ValueError /\ is_valid_url(t)}

\* The breadth-first formulation of crawl: the urls of one level are fetched
\* unless seen, then the urls their pages link to, with one depth less; a
\* level of depth <= 0 is not fetched. The result is the set of urls fetched.
RECURSIVE BreadthFirst(_, _, _)
BreadthFirst(frontier, seen, depth) ==
    IF depth <= 0 \/ frontier \subseteq seen THEN seen
    ELSE BreadthFirst(UNION {Targets(u) : u \in frontier \ seen},
                      seen \cup frontier, depth - 1)

\* The one crawl call is through the anchors of the seed page
CrawlDone ==
    /\ Len(stack) = 1
    /\ Top.pc = "links"
    /\ Top.k = Len(Anchors(Top.url))

\* C19 (amended): when all page fetches succeed, every url crawl has fetched,
\* looked at after each page fetch and when crawl is done, is one the
\* breadth-first formulation fetches.
C19_WithinBreadthFirst ==
    (Running /\ (Top.pc = "imgs" \/ CrawlDone)) =>
        fetched \subseteq BreadthFirst({base_url}, {}, stack[1].depth)

\* C19 witness: a crawl of depth 3 is done and has fetched fewer urls than
\* the breadth-first formulation fetches
C19_Witness ==
    /\ CrawlDone
    /\ stack[1].depth = 3
    /\ fetched \subseteq BreadthFirst({base_url}, {}, 3)
    /\ fetched # BreadthFirst({base_url}, {}, 3)

\* C19 as stated: when all page fetches succeed, crawl has fetched the urls
\* the breadth-first formulation fetches; stated here for the seed that is
\* spelled the way the links to it are, so that no page has two urls.
C19_Original ==
    (CrawlDone /\ base_url = SITE_ROOT \o <<"/">>) =>
        fetched = BreadthFirst({base_url}, {}, stack[1].depth)

====
